---- MODULE Spec2Model ----
(***************************************************************************)
(* Model of notes_database/init_db.py: the one-shot SQLite initializer.    *)
(* One run of the script is a sequence of steps (pc); the database file,   *)
(* the migration file and the db_visualizer directory persist between     *)
(* runs.  The connection works in manual-transaction mode                  *)
(* (isolation_level = None): statements between BEGIN and COMMIT change    *)
(* the connection's working copy only, Connection.executescript first      *)
(* commits a pending transaction and then runs the script statement by     *)
(* statement (a BEGIN in the script opens a new transaction), and closing *)
(* a connection rolls back a pending transaction.  Table names are        *)
(* case-insensitive for the engine, the catalog query of line 76 is not.   *)
(***************************************************************************)
EXTENDS Naturals, Sequences, FiniteSets, TLC

VARIABLES
    dbFile,         \* os.path.exists(DB_NAME) on disk
    disk,           \* committed content of the database file
    mig,            \* content of migrations/001_create_notes.sql
    vizDir,         \* state of the db_visualizer directory
    connOpen,       \* the connection object is open
    cursorOpen,     \* the cursor object is open
    foreign_keys,   \* PRAGMA foreign_keys of the session
    inTx,           \* a transaction is pending on the connection
    work,           \* the connection's view of the database
    pc,             \* position of the script
    db_exists, notes_exists, created_notes, table_count, record_count,
    exc,            \* exception propagating out of the script
    out,            \* lines printed, the status line excluded
    statusLine,     \* status_parts, <<>> until printed
    runs,           \* history: runs started
    pre,            \* history: disk when the current run started
    reached,        \* history: steps the current run entered
    migOpened,      \* history: the current run opened the migration file
    execCount,      \* history: calls of conn.executescript over all runs
    log             \* history: outcome of every earlier run

vars == <<dbFile, disk, mig, vizDir, connOpen, cursorOpen, foreign_keys, inTx,
          work, pc, db_exists, notes_exists, created_notes, table_count,
          record_count, exc, out, statusLine, runs, pre, reached, migOpened,
          execCount, log>>

\* Number of runs of the script in one behaviour.
MaxRuns == 2

----------------------------------------------------------------------------
\* Program constants

DB_NAME == "myapp.db"
MIGRATIONS_DIR == "migrations"
NOTES_MIGRATION_FILE == "migrations/001_create_notes.sql"

SeedRows == << <<"project_name", "notes_database">>, <<"version", "0.1.0">>,
               <<"author", "John Doe">>, <<"description", "">> >>

SeedKeys == {SeedRows[i][1] : i \in 1..Len(SeedRows)}

----------------------------------------------------------------------------
\* The database: schema maps each table to its definition, rows maps each
\* table to its rows in rowid order.

EmptyDB == [schema |-> <<>>, rows |-> <<>>]

Tables(db) == DOMAIN db.schema

\* The spellings of table names that occur in the model's databases.
Identifiers == {"app_info", "APP_INFO", "App_Info", "users", "USERS", "Users",
                "notes", "NOTES", "Notes"}

\* The engine folds the case of every identifier; tabulated over
\* Identifiers, strings being atomic here.
Lower(t) ==
    CASE t \in {"APP_INFO", "App_Info"} -> "app_info"
      [] t \in {"USERS", "Users"} -> "users"
      [] t \in {"NOTES", "Notes"} -> "notes"
      [] OTHER -> t

\* The engine's name lookup: a table is found under any spelling.
HasTable(db, t) == \E u \in Tables(db) : Lower(u) = Lower(t)

\* The table a statement naming t works on.
Resolve(db, t) == CHOOSE u \in Tables(db) : Lower(u) = Lower(t)

CreateTableIfNotExistsM(db, t, def) ==
    [schema |-> (t :> def) @@ db.schema, rows |-> (t :> <<>>) @@ db.rows]

\* CREATE TABLE IF NOT EXISTS t (def)
CreateTableIfNotExists(db, t, def) ==
    IF HasTable(db, t) THEN db
    ELSE [schema |-> db.schema @@ (t :> def), rows |-> db.rows @@ (t :> <<>>)]

InsertOrReplaceM(rows, k, v) == rows \o << <<k, v>> >>

\* INSERT OR REPLACE INTO app_info (key, value): key is UNIQUE, so the row
\* holding the key is deleted and the new row gets the next rowid.
InsertOrReplace(rows, k, v) ==
    SelectSeq(rows, LAMBDA r : r[1] # k) \o << <<k, v>> >>

\* The i-th of the four upserts.
SeedAppInfo(db, i) ==
    [db EXCEPT !.rows = [@ EXCEPT ![Resolve(db, "app_info")] =
        InsertOrReplace(@, SeedRows[i][1], SeedRows[i][2])]]

NotesExistsM(db) == "note" \in Tables(db)

\* SELECT name FROM sqlite_master WHERE type='table' AND name='notes':
\* the comparison of the name column is case-sensitive.
NotesExists(db) == "notes" \in Tables(db)

NextAfterCheckM(exists) == "migrate"

\* "if not notes_exists": the migration step is skipped when notes exists.
NextAfterCheck(exists) == IF exists THEN "commit" ELSE "migrate"

----------------------------------------------------------------------------
\* Exceptions

NoExc == [type |-> "none", msg |-> <<>>]
EngineError == [type |-> "sqlite3.Error", msg |-> <<"engine fault">>]
NoTransaction ==
    [type |-> "sqlite3.OperationalError",
     msg |-> <<"cannot commit - no transaction is active">>]
SyntaxError ==
    [type |-> "sqlite3.OperationalError", msg |-> <<"syntax error">>]
TableExists ==
    [type |-> "sqlite3.OperationalError", msg |-> <<"table notes already exists">>]
MigrationNotFound ==
    [type |-> "FileNotFoundError",
     msg |-> <<"Required migration not found: ", NOTES_MIGRATION_FILE>>]
MakedirsError == [type |-> "OSError", msg |-> <<"db_visualizer">>]
MigrationsDirError == [type |-> "FileExistsError", msg |-> <<MIGRATIONS_DIR>>]
IsADirectory ==
    [type |-> "IsADirectoryError",
     msg |-> <<"Is a directory: ", NOTES_MIGRATION_FILE>>]
DecodeError == [type |-> "UnicodeDecodeError", msg |-> <<"invalid start byte">>]
NestedTransaction ==
    [type |-> "sqlite3.OperationalError",
     msg |-> <<"cannot start a transaction within a transaction">>]

\* os.makedirs(MIGRATIONS_DIR, exist_ok=True): fails when the path is a
\* regular file.
MakedirsMigrations(m) ==
    IF m = "migrations_is_file" THEN MigrationsDirError ELSE NoExc

OpenMigrationM(m) == NoExc

\* open(NOTES_MIGRATION_FILE) and the except clause, which translates
\* FileNotFoundError only.
OpenMigration(m) ==
    IF m = "absent" THEN MigrationNotFound
    ELSE IF m = "is_directory" THEN IsADirectory
    ELSE NoExc

\* f.read() with encoding="utf-8"
ReadMigration(m) == IF m = "non_utf8" THEN DecodeError ELSE NoExc

----------------------------------------------------------------------------
\* Transactions.  A store is the committed content, the connection's view
\* and the pending-transaction flag.

Store == [disk |-> disk, work |-> work, inTx |-> inTx]

SetStore(s) == disk' = s.disk /\ work' = s.work /\ inTx' = s.inTx

ExecBegin(s) == [s EXCEPT !.inTx = TRUE]

\* A statement that writes: autocommitted unless a transaction is pending.
ExecWrite(s, db) ==
    [disk |-> IF s.inTx THEN s.disk ELSE db, work |-> db, inTx |-> s.inTx]

ExecCommit(s) == [disk |-> s.work, work |-> s.work, inTx |-> FALSE]

CloseConnectionM(s) == [disk |-> s.work, work |-> s.work, inTx |-> FALSE]

\* Connection.close(): a pending transaction is rolled back.
CloseConnection(s) == [disk |-> s.disk, work |-> s.disk, inTx |-> FALSE]

\* The store after a statement has failed in the engine.  An I/O error
\* (io) makes the engine roll the pending transaction back before the
\* exception is raised; any other error (constraint, busy) undoes the
\* statement only and leaves the transaction as it was.
FaultStore(s, io) ==
    IF io THEN [disk |-> s.disk, work |-> s.disk, inTx |-> FALSE] ELSE s

\* The statements of the migration file.
MigrationSql(m) ==
    CASE m = "notes_v1" -> <<"create_notes_v1">>
      [] m = "notes_v2" -> <<"create_notes_v2">>
      [] m = "syntax_error" -> <<"syntax_error">>
      [] m = "notes_then_error" -> <<"create_notes_v1", "syntax_error">>
      [] m = "notes_v1_begin" -> <<"create_notes_v1", "begin">>
      [] m = "begin_notes_v2" -> <<"begin", "create_notes_v2">>
      [] OTHER -> <<>>

\* One statement of a script: autocommitted unless the script has opened a
\* transaction.
RunStatement(r, stmt) ==
    IF r.err # NoExc THEN r
    ELSE IF stmt = "syntax_error" THEN [r EXCEPT !.err = SyntaxError]
    ELSE IF stmt = "begin"
    THEN IF r.s.inTx THEN [r EXCEPT !.err = NestedTransaction]
         ELSE [r EXCEPT !.s = ExecBegin(r.s)]
    ELSE IF HasTable(r.s.work, "notes") THEN [r EXCEPT !.err = TableExists]
    ELSE [r EXCEPT !.s = ExecWrite(r.s,
             CreateTableIfNotExists(r.s.work, "notes",
                 IF stmt = "create_notes_v1" THEN "v1" ELSE "v2"))]

RECURSIVE RunStatements(_, _)
RunStatements(r, stmts) ==
    IF stmts = <<>> THEN r
    ELSE RunStatements(RunStatement(r, Head(stmts)), Tail(stmts))

\* Connection.executescript(sql): COMMIT a pending transaction first, then
\* run the statements until one fails.
ExecuteScript(s, stmts) ==
    RunStatements([s |-> IF s.inTx THEN ExecCommit(s) ELSE s, err |-> NoExc],
                  stmts)

closing_exitM(isOpen, pending) == IF pending = NoExc THEN FALSE ELSE isOpen

\* contextlib.closing.__exit__: close the resource whatever is propagating.
closing_exit(isOpen, pending) == FALSE

----------------------------------------------------------------------------
\* Initial states: the database file is absent, or is a database left by
\* earlier use.

PriorAppInfo == { <<>>,
                  << <<"version", "9.9">>, <<"custom", "x">> >> }

PriorDBs ==
    {EmptyDB} \cup
    { [schema |-> [t \in d[1] |-> IF Lower(t) = "notes" THEN "v0" ELSE "base"],
       rows |-> [t \in d[1] |->
                    IF Lower(t) = "app_info" THEN d[2]
                    ELSE IF Lower(t) = "users" THEN << <<"alice", "a@x">> >>
                    ELSE <<>>]] :
        d \in ({{"app_info"}} \X PriorAppInfo)
              \cup {<<{"app_info", "users"},
                      << <<"version", "9.9">>, <<"custom", "x">> >> >>,
                    <<{"app_info", "users", "notes"},
                      << <<"version", "9.9">>, <<"custom", "x">> >> >>,
                    <<{"app_info", "users", "NOTES"}, <<>> >>,
                    <<{"APP_INFO", "Users", "Notes"},
                      << <<"version", "9.9">>, <<"custom", "x">> >> >>} }

\* What the run finds at migrations/001_create_notes.sql.
MigFiles == {"absent", "migrations_is_file", "is_directory", "non_utf8",
             "notes_v1", "notes_v2", "syntax_error", "notes_then_error",
             "empty", "notes_v1_begin", "begin_notes_v2"}

\* Scripts of one CREATE TABLE notes statement.
ValidMigrations == {"notes_v1", "notes_v2"}

\* Scripts whose only effect on the schema is to create notes.
CreatesOnlyNotes == {"notes_v1", "notes_v2", "notes_v1_begin", "begin_notes_v2"}

VizDirStates == {"absent", "present", "blocked"}

Init ==
    /\ disk \in PriorDBs
    /\ dbFile \in (IF disk = EmptyDB THEN BOOLEAN ELSE {TRUE})
    /\ mig = "absent"
    /\ vizDir \in VizDirStates
    /\ connOpen = FALSE /\ cursorOpen = FALSE /\ foreign_keys = FALSE
    /\ inTx = FALSE /\ work = disk
    /\ pc = "idle"
    /\ db_exists = FALSE /\ notes_exists = FALSE /\ created_notes = FALSE
    /\ table_count = 0 /\ record_count = 0
    /\ exc = NoExc /\ out = <<>> /\ statusLine = <<>>
    /\ runs = 0 /\ pre = disk /\ reached = {} /\ migOpened = FALSE
    /\ execCount = 0 /\ log = <<>>

----------------------------------------------------------------------------
\* Steps of the script

Goto(l) == pc' = l /\ reached' = reached \cup {l}

\* An exception raised inside the two with-blocks: both __exit__ run.
RaiseInBlock(e) == exc' = e /\ Goto("exit_cursor")

Outcome ==
    [status |-> statusLine, disk |-> disk, exc |-> exc, mig |-> mig,
     pre |-> pre, pc |-> pc]

\* Lines 25-35: a run starts; the migration file is whatever the
\* environment left there since the last run.
StartRun ==
    /\ pc \in {"idle", "done", "aborted"}
    /\ runs < MaxRuns
    /\ runs' = runs + 1
    /\ log' = IF pc = "idle" THEN log ELSE Append(log, Outcome)
    /\ pre' = disk
    /\ migOpened' = FALSE
    /\ statusLine' = <<>>
    /\ notes_exists' = FALSE /\ created_notes' = FALSE
    /\ table_count' = 0 /\ record_count' = 0
    /\ work' = disk
    /\ \E m \in MigFiles :
         /\ mig' = m
         /\ IF MakedirsMigrations(m) # NoExc
            THEN /\ exc' = MakedirsMigrations(m)
                 /\ out' = <<"Starting SQLite setup...">>
                 /\ db_exists' = FALSE
                 /\ pc' = "aborted" /\ reached' = {"aborted"}
            ELSE /\ exc' = NoExc
                 /\ db_exists' = dbFile
                 /\ out' = <<"Starting SQLite setup...",
                             IF dbFile THEN "SQLite database already exists"
                             ELSE "Creating new SQLite database...">>
                 /\ pc' = "connect" /\ reached' = {"connect"}
    /\ UNCHANGED <<dbFile, disk, vizDir, connOpen, cursorOpen, foreign_keys,
                   inTx, execCount>>

\* Lines 38-40: connect, isolation_level = None, cursor.
Connect ==
    /\ pc = "connect"
    /\ \E fail \in BOOLEAN :
         IF fail
         THEN /\ exc' = EngineError
              /\ Goto("aborted")
              /\ UNCHANGED <<dbFile, connOpen, cursorOpen, foreign_keys>>
         ELSE /\ dbFile' = TRUE
              /\ connOpen' = TRUE /\ cursorOpen' = TRUE
              /\ foreign_keys' = FALSE
              /\ Goto("pragma")
              /\ exc' = exc
    /\ UNCHANGED <<disk, mig, vizDir, inTx, work, db_exists,
                   notes_exists, created_notes, table_count, record_count,
                   out, statusLine, runs, pre, migOpened, execCount, log>>

\* Line 42
Pragma ==
    /\ pc = "pragma"
    /\ \E fail \in BOOLEAN :
         IF fail
         THEN RaiseInBlock(EngineError) /\ UNCHANGED foreign_keys
         ELSE foreign_keys' = TRUE /\ Goto("begin") /\ exc' = exc
    /\ UNCHANGED <<dbFile, disk, mig, vizDir, connOpen, cursorOpen, inTx,
                   work, db_exists, notes_exists, created_notes, table_count,
                   record_count, out, statusLine, runs, pre, migOpened,
                   execCount, log>>

\* Line 45
Begin ==
    /\ pc = "begin"
    /\ \E fail \in BOOLEAN, io \in BOOLEAN :
         IF fail
         THEN RaiseInBlock(EngineError) /\ SetStore(FaultStore(Store, io))
         ELSE /\ SetStore(ExecBegin(Store))
              /\ Goto("create_app_info") /\ exc' = exc
    /\ UNCHANGED <<dbFile, mig, vizDir, connOpen, cursorOpen, foreign_keys,
                   db_exists, notes_exists, created_notes, table_count,
                   record_count, out, statusLine, runs, pre, migOpened,
                   execCount, log>>

\* Lines 48-55
CreateAppInfo ==
    /\ pc = "create_app_info"
    /\ \E fail \in BOOLEAN, io \in BOOLEAN :
         IF fail
         THEN RaiseInBlock(EngineError) /\ SetStore(FaultStore(Store, io))
         ELSE /\ SetStore(ExecWrite(Store,
                    CreateTableIfNotExists(work, "app_info", "base")))
              /\ Goto("create_users") /\ exc' = exc
    /\ UNCHANGED <<dbFile, mig, vizDir, connOpen, cursorOpen, foreign_keys,
                   db_exists, notes_exists, created_notes, table_count,
                   record_count, out, statusLine, runs, pre, migOpened,
                   execCount, log>>

\* Lines 56-63
CreateUsers ==
    /\ pc = "create_users"
    /\ \E fail \in BOOLEAN, io \in BOOLEAN :
         IF fail
         THEN RaiseInBlock(EngineError) /\ SetStore(FaultStore(Store, io))
         ELSE /\ SetStore(ExecWrite(Store,
                    CreateTableIfNotExists(work, "users", "base")))
              /\ Goto("seed1") /\ exc' = exc
    /\ UNCHANGED <<dbFile, mig, vizDir, connOpen, cursorOpen, foreign_keys,
                   db_exists, notes_exists, created_notes, table_count,
                   record_count, out, statusLine, runs, pre, migOpened,
                   execCount, log>>

SeedPc == <<"seed1", "seed2", "seed3", "seed4">>

\* Lines 66-73: the i-th upsert.
Seed(i) ==
    /\ pc = SeedPc[i]
    /\ \E fail \in BOOLEAN, io \in BOOLEAN :
         IF fail
         THEN RaiseInBlock(EngineError) /\ SetStore(FaultStore(Store, io))
         ELSE /\ SetStore(ExecWrite(Store, SeedAppInfo(work, i)))
              /\ Goto(IF i < Len(SeedRows) THEN SeedPc[i + 1] ELSE "check")
              /\ exc' = exc
    /\ UNCHANGED <<dbFile, mig, vizDir, connOpen, cursorOpen, foreign_keys,
                   db_exists, notes_exists, created_notes, table_count,
                   record_count, out, statusLine, runs, pre, migOpened,
                   execCount, log>>

\* Lines 76-80
CheckNotes ==
    /\ pc = "check"
    /\ \E fail \in BOOLEAN, io \in BOOLEAN :
         IF fail
         THEN /\ RaiseInBlock(EngineError)
              /\ SetStore(FaultStore(Store, io))
              /\ UNCHANGED <<notes_exists, created_notes>>
         ELSE /\ notes_exists' = NotesExists(work)
              /\ created_notes' = FALSE
              /\ Goto(NextAfterCheck(NotesExists(work)))
              /\ exc' = exc
              /\ UNCHANGED <<disk, work, inTx>>
    /\ UNCHANGED <<dbFile, mig, vizDir, connOpen, cursorOpen,
                   foreign_keys, db_exists, table_count,
                   record_count, out, statusLine, runs, pre, migOpened,
                   execCount, log>>

\* Lines 82-92
Migrate ==
    /\ pc = "migrate"
    /\ IF OpenMigration(mig) # NoExc
       THEN /\ RaiseInBlock(OpenMigration(mig))
            /\ UNCHANGED <<disk, work, inTx, created_notes, migOpened,
                           execCount>>
       ELSE IF ReadMigration(mig) # NoExc
       THEN /\ migOpened' = TRUE
            /\ RaiseInBlock(ReadMigration(mig))
            /\ UNCHANGED <<disk, work, inTx, created_notes, execCount>>
       ELSE \* fault 0: none; 1..Len: the engine fails in that statement of
            \* the script; Len + 1: it fails at the implicit COMMIT.
            LET stmts == MigrationSql(mig) IN
            /\ migOpened' = TRUE
            /\ execCount' = execCount + 1
            /\ \E fault \in 0..(Len(stmts) + 1), io \in BOOLEAN :
                 LET r == ExecuteScript(Store,
                              IF fault \in 1..Len(stmts)
                              THEN SubSeq(stmts, 1, fault - 1) ELSE stmts)
                 IN
                 IF fault = Len(stmts) + 1
                 THEN /\ RaiseInBlock(EngineError)
                      /\ SetStore(FaultStore(Store, io))
                      /\ UNCHANGED created_notes
                 ELSE IF r.err # NoExc
                 THEN /\ RaiseInBlock(r.err) /\ SetStore(r.s)
                      /\ UNCHANGED created_notes
                 ELSE IF fault # 0
                 THEN /\ RaiseInBlock(EngineError)
                      /\ SetStore(FaultStore(r.s, io))
                      /\ UNCHANGED created_notes
                 ELSE /\ SetStore(r.s)
                      /\ created_notes' = TRUE
                      /\ Goto("commit") /\ exc' = exc
    /\ UNCHANGED <<dbFile, mig, vizDir, connOpen, cursorOpen, foreign_keys,
                   db_exists, notes_exists, table_count, record_count, out,
                   statusLine, runs, pre, log>>

\* Line 95
Commit ==
    /\ pc = "commit"
    /\ IF ~inTx
       THEN RaiseInBlock(NoTransaction) /\ UNCHANGED <<disk, work, inTx>>
       ELSE \E fail \in BOOLEAN, io \in BOOLEAN :
              IF fail
              THEN RaiseInBlock(EngineError) /\ SetStore(FaultStore(Store, io))
              ELSE SetStore(ExecCommit(Store)) /\ Goto("stats") /\ exc' = exc
    /\ UNCHANGED <<dbFile, mig, vizDir, connOpen, cursorOpen, foreign_keys,
                   db_exists, notes_exists, created_notes, table_count,
                   record_count, out, statusLine, runs, pre, migOpened,
                   execCount, log>>

\* Lines 98-106
Stats ==
    /\ pc = "stats"
    /\ \E fail1 \in BOOLEAN, fail2 \in BOOLEAN :
         IF fail1
         THEN RaiseInBlock(EngineError)
              /\ UNCHANGED <<table_count, record_count>>
         ELSE /\ table_count' = Cardinality(Tables(work))
              /\ record_count' =
                    IF fail2 \/ ~HasTable(work, "app_info") THEN 0
                    ELSE Len(work.rows[Resolve(work, "app_info")])
              /\ Goto("exit_cursor") /\ exc' = exc
    /\ UNCHANGED <<dbFile, disk, mig, vizDir, connOpen, cursorOpen,
                   foreign_keys, inTx, work, db_exists, notes_exists,
                   created_notes, out, statusLine, runs, pre, migOpened,
                   execCount, log>>

\* Line 40: leaving "with closing(conn.cursor())"
CloseCursor ==
    /\ pc = "exit_cursor"
    /\ cursorOpen' = closing_exit(cursorOpen, exc)
    /\ Goto("exit_conn")
    /\ UNCHANGED <<dbFile, disk, mig, vizDir, connOpen, foreign_keys, inTx,
                   work, db_exists, notes_exists, created_notes, table_count,
                   record_count, exc, out, statusLine, runs, pre, migOpened,
                   execCount, log>>

\* Line 38: leaving "with closing(sqlite3.connect(DB_NAME))"
CloseConn ==
    /\ pc = "exit_conn"
    /\ connOpen' = closing_exit(connOpen, exc)
    /\ IF closing_exit(connOpen, exc) = FALSE
       THEN SetStore(CloseConnection(Store))
       ELSE UNCHANGED <<disk, work, inTx>>
    /\ Goto(IF exc = NoExc THEN "conninfo" ELSE "aborted")
    /\ UNCHANGED <<dbFile, mig, vizDir, cursorOpen, foreign_keys, db_exists,
                   notes_exists, created_notes, table_count, record_count,
                   exc, out, statusLine, runs, pre, migOpened, execCount,
                   log>>

\* Lines 109-120
WriteConnInfo ==
    /\ pc = "conninfo"
    /\ \E ok \in BOOLEAN :
         out' = Append(out, IF ok THEN "Connection information saved to db_connection.txt"
                            ELSE "Warning: Could not save connection info")
    /\ Goto("vizdir")
    /\ UNCHANGED <<dbFile, disk, mig, vizDir, connOpen, cursorOpen,
                   foreign_keys, inTx, work, db_exists, notes_exists,
                   created_notes, table_count, record_count, exc, statusLine,
                   runs, pre, migOpened, execCount, log>>

\* Lines 126-128
EnsureVizDir ==
    /\ pc = "vizdir"
    /\ CASE vizDir = "present" ->
              Goto("envfile") /\ UNCHANGED <<vizDir, out, exc>>
         [] vizDir = "absent" ->
              /\ vizDir' = "present"
              /\ out' = Append(out, "Created db_visualizer directory")
              /\ Goto("envfile") /\ exc' = exc
         [] OTHER ->
              /\ exc' = MakedirsError
              /\ Goto("aborted") /\ UNCHANGED <<vizDir, out>>
    /\ UNCHANGED <<dbFile, disk, mig, connOpen, cursorOpen, foreign_keys,
                   inTx, work, db_exists, notes_exists, created_notes,
                   table_count, record_count, statusLine, runs, pre,
                   migOpened, execCount, log>>

\* Lines 130-135
WriteEnvFile ==
    /\ pc = "envfile"
    /\ \E ok \in BOOLEAN :
         out' = Append(out, IF ok THEN "Environment variables saved to db_visualizer/sqlite.env"
                            ELSE "Warning: Could not save environment variables")
    /\ Goto("status")
    /\ UNCHANGED <<dbFile, disk, mig, vizDir, connOpen, cursorOpen,
                   foreign_keys, inTx, work, db_exists, notes_exists,
                   created_notes, table_count, record_count, exc, statusLine,
                   runs, pre, migOpened, execCount, log>>

\* Lines 138-147
PrintStatus ==
    /\ pc = "status"
    /\ statusLine' = <<"SQLite setup complete", DB_NAME, table_count,
                       record_count,
                       IF (~db_exists /\ created_notes) \/ created_notes
                       THEN "created" ELSE "ready">>
    /\ out' = out \o <<"Location: cwd/myapp.db", "Connect: sqlite3 myapp.db">>
    /\ Goto("done")
    /\ UNCHANGED <<dbFile, disk, mig, vizDir, connOpen, cursorOpen,
                   foreign_keys, inTx, work, db_exists, notes_exists,
                   created_notes, table_count, record_count, exc, runs,
                   pre, migOpened, execCount, log>>

Next ==
    \/ StartRun \/ Connect \/ Pragma \/ Begin \/ CreateAppInfo \/ CreateUsers
    \/ (\E i \in 1..Len(SeedRows) : Seed(i)) \/ CheckNotes
    \/ Migrate \/ Commit \/ Stats \/ CloseCursor \/ CloseConn
    \/ WriteConnInfo \/ EnsureVizDir \/ WriteEnvFile \/ PrintStatus

Spec == Init /\ [][Next]_vars

TypeOK ==
    /\ pc \in {"idle", "connect", "pragma", "begin", "create_app_info",
               "create_users", "seed1", "seed2", "seed3", "seed4", "check",
               "migrate", "commit", "stats", "exit_cursor", "exit_conn",
               "conninfo", "vizdir", "envfile", "status", "done", "aborted"}
    /\ runs \in 0..MaxRuns
    /\ Tables(disk) \subseteq Identifiers /\ Tables(work) \subseteq Identifiers
    /\ foreign_keys \in BOOLEAN

----------------------------------------------------------------------------
\* Properties

RunEnded == pc \in {"done", "aborted"}

BaseAndNotes == {"app_info", "users", "notes"}

LaterSteps == {"stats", "conninfo", "vizdir", "envfile", "status", "done"}

AppInfoRows(db) ==
    IF HasTable(db, "app_info") THEN db.rows[Resolve(db, "app_info")] ELSE <<>>

UsersRows(db) ==
    IF HasTable(db, "users") THEN db.rows[Resolve(db, "users")] ELSE <<>>

KeysOf(rows) == {rows[i][1] : i \in 1..Len(rows)}

RowsWithKey(rows, k) == {i \in 1..Len(rows) : rows[i][1] = k}

NonSeedRows(rows) == SelectSeq(rows, LAMBDA r : r[1] \notin SeedKeys)

\* Exactly one row per seed key, holding the literal value.
SeedsExact(db) ==
    \A j \in 1..Len(SeedRows) :
        /\ Cardinality(RowsWithKey(AppInfoRows(db), SeedRows[j][1])) = 1
        /\ \A i \in RowsWithKey(AppInfoRows(db), SeedRows[j][1]) :
               AppInfoRows(db)[i][2] = SeedRows[j][2]

\* The run's transaction was committed: the COMMIT statement was executed
\* and was not hit by an engine fault.
CommitDone == "stats" \in reached \/ exc = NoTransaction

\* C1: a single run from a fresh directory with a migration that creates
\* only notes runs through to the status line without raising; the
\* persisted tables are {app_info, users, notes}, app_info has 4 rows and
\* the status line reports notes_table=created.
C1_FreshRunCompletes ==
    (RunEnded /\ runs = 1 /\ pre = EmptyDB /\ ~db_exists
        /\ mig \in ValidMigrations /\ exc # EngineError)
    => /\ pc = "done"
       /\ exc = NoExc
       /\ Tables(disk) = BaseAndNotes
       /\ Len(AppInfoRows(disk)) = 4
       /\ statusLine[5] = "created"

\* C2: two runs in succession on an initially empty target, migration file
\* present: the second run leaves the same persisted tables and the same
\* four app_info rows as the first, without duplicates, and the runs
\* report notes_table=created and then notes_table=ready.
C2_TwoRunsIdempotent ==
    (RunEnded /\ runs = 2 /\ Len(log) = 1 /\ log[1].pre = EmptyDB
        /\ log[1].mig \in ValidMigrations /\ mig \in ValidMigrations
        /\ log[1].exc # EngineError /\ exc # EngineError
        /\ vizDir # "blocked")
    => /\ Tables(disk) = Tables(log[1].disk)
       /\ AppInfoRows(disk) = AppInfoRows(log[1].disk)
       /\ AppInfoRows(disk) = SeedRows
       /\ Len(log[1].status) = 5 /\ log[1].status[5] = "created"
       /\ Len(statusLine) = 5 /\ statusLine[5] = "ready"

\* C3: after a run that reached the commit, whatever app_info held before,
\* app_info holds exactly one row for each of the four seed keys, with the
\* literal value.
C3_SeedRowsExact == CommitDone => SeedsExact(disk)

C3_Witness ==
    /\ pc = "done" /\ runs = 2
    /\ <<"version", "9.9">> \in {AppInfoRows(log[1].pre)[i] :
                                   i \in 1..Len(AppInfoRows(log[1].pre))}
    /\ AppInfoRows(disk) = << <<"custom", "x">> >> \o SeedRows

\* C4: in a run that finds the notes table in the catalog, the migration
\* file is neither opened nor executed, whatever it holds, and the notes
\* table stays as it was.
C4_MigrationGated ==
    ("notes" \in Tables(pre) /\ reached \cap {"migrate", "commit"} # {})
    => /\ notes_exists
       /\ ~migOpened
       /\ "migrate" \notin reached
       /\ "notes" \in Tables(pre) /\ "notes" \in Tables(disk)
       /\ disk.schema["notes"] = pre.schema["notes"]
       /\ disk.rows["notes"] = pre.rows["notes"]
       /\ work.schema["notes"] = pre.schema["notes"]

C4_Witness ==
    /\ pc = "done" /\ notes_exists /\ Len(log) = 1
    /\ log[1].mig = "notes_v1" /\ mig = "notes_v2"
    /\ disk.schema["notes"] = "v1"

\* C5 as stated: a run in which notes does not exist and the migration
\* file is absent ends with an error naming
\* migrations/001_create_notes.sql, reaches neither the COMMIT nor any
\* later step, and leaves no notes table.
C5_AbsentMigrationNamesPath ==
    (RunEnded /\ runs >= 1 /\ ~HasTable(pre, "notes")
        /\ mig \in {"absent", "migrations_is_file"} /\ exc # EngineError)
    => /\ pc = "aborted"
       /\ exc.type = "FileNotFoundError"
       /\ \E i \in 1..Len(exc.msg) : exc.msg[i] = NOTES_MIGRATION_FILE
       /\ reached \cap ({"commit"} \cup LaterSteps) = {}
       /\ ~NotesExists(disk)

\* C5 amended: a run that reaches the migration step and finds no file
\* ends with an error naming migrations/001_create_notes.sql, reaches
\* neither the COMMIT nor any later step, and leaves no notes table.
C5_MissingMigrationFatal ==
    ("migrate" \in reached /\ pc # "migrate" /\ mig = "absent")
    => /\ pc \in {"exit_cursor", "exit_conn", "aborted"}
       /\ exc.type = "FileNotFoundError"
       /\ \E i \in 1..Len(exc.msg) : exc.msg[i] = NOTES_MIGRATION_FILE
       /\ reached \cap ({"commit"} \cup LaterSteps) = {}
       /\ Len(statusLine) = 0
       /\ ~NotesExists(disk)

C5_Witness ==
    /\ pc = "aborted" /\ mig = "absent" /\ "migrate" \in reached
    /\ exc = MigrationNotFound /\ ~NotesExists(disk)

\* C6: a run aborted by a missing migration file commits nothing: the
\* persisted tables and rows are those of before the run.
C6_AbortCommitsNothing ==
    (pc = "aborted" /\ exc = MigrationNotFound) => disk = pre

C6_Witness ==
    /\ pc = "aborted" /\ exc = MigrationNotFound
    /\ "seed4" \in reached /\ "check" \in reached
    /\ <<"version", "9.9">> \in {AppInfoRows(disk)[i] :
                                   i \in 1..Len(AppInfoRows(disk))}
    /\ "users" \notin Tables(disk)

\* C7: when the db_visualizer directory cannot be created the run does not
\* abort: it prints a warning and the status line, and the committed tables
\* stay.
C7_VizDirFailureNonFatal ==
    (vizDir = "blocked" /\ "vizdir" \in reached /\ RunEnded)
    => /\ pc = "done"
       /\ Len(statusLine) = 5
       /\ \E i \in 1..Len(out) :
              out[i] = "Warning: Could not save environment variables"
       /\ BaseAndNotes \subseteq Tables(disk)

\* C8 as stated: over all runs the migration script is executed at most
\* once.
C8_ExecutedAtMostOnce == execCount <= 1

\* C8 amended: once the database file holds a table named notes, no later
\* step executes the migration script.
C8_NoExecOnceNotesPersisted ==
    [][("notes" \in Tables(disk)) => execCount' = execCount]_vars

C8_Witness ==
    /\ runs = 2 /\ pc = "done" /\ execCount = 1
    /\ "notes" \notin Tables(log[1].pre) /\ "notes" \in Tables(log[1].disk)
    /\ mig \in ValidMigrations

\* C9: outside the with-blocks, on the normal and on every exceptional
\* exit, the cursor and the connection are closed.
C9_ResourcesReleased ==
    pc \in {"idle", "connect", "conninfo", "vizdir", "envfile", "status",
            "done", "aborted"}
    => ~cursorOpen /\ ~connOpen

C9_Witness ==
    /\ pc = "aborted" /\ exc = NoTransaction /\ "commit" \in reached
    /\ ~cursorOpen /\ ~connOpen

\* C10: with a migration that only creates notes, a run leaves the rows of
\* users and the app_info rows of other keys as they were, drops no table,
\* and removes no app_info key.
FrameKept(db) ==
    /\ Tables(pre) \subseteq Tables(db)
    /\ \A t \in Tables(pre) : db.schema[t] = pre.schema[t]
    /\ UsersRows(db) = UsersRows(pre)
    /\ NonSeedRows(AppInfoRows(db)) = NonSeedRows(AppInfoRows(pre))
    /\ KeysOf(AppInfoRows(pre)) \subseteq KeysOf(AppInfoRows(db))

C10_FrameKept ==
    mig \in CreatesOnlyNotes => FrameKept(disk) /\ FrameKept(work)

C10_Witness ==
    /\ RunEnded /\ mig \in ValidMigrations
    /\ migOpened /\ created_notes
    /\ "notes" \notin Tables(pre) /\ "notes" \in Tables(disk)
    /\ UsersRows(pre) = << <<"alice", "a@x">> >>
    /\ UsersRows(disk) = << <<"alice", "a@x">> >>
    /\ <<"custom", "x">> \in {AppInfoRows(disk)[i] :
                                i \in 1..Len(AppInfoRows(disk))}
    /\ AppInfoRows(disk) # AppInfoRows(pre)

====
